---------------------------- MODULE Spec2Model ----------------------------
(***************************************************************************)
(* A model of the telegram fraud-analysis bot: FraudAnalyzer               *)
(* (src/fraud_analyzer.py) and the process around it (src/main.py).        *)
(*                                                                         *)
(* Text is a sequence of Unicode code points, as a Python str is, so that  *)
(* lower(), strip(), the "in" operator and the regular expressions are     *)
(* computed the way Python computes them.  Scores are kept in hundredths   *)
(* (0.3 is 30): every weight of the source is a multiple of 0.1 and the    *)
(* blend halves a multiple of 0.1, so hundredths are exact.  The floats of *)
(* the source differ from them by rounding only ((0.2 + 0.7) / 2 is        *)
(* 0.44999999999999996 there), and no sum the additions of the source can  *)
(* produce falls on the other side of a cut point than its exact value.    *)
(***************************************************************************)
EXTENDS Integers, Sequences, FiniteSets, TLC

\* The longest message, in words of Vocabulary.
MaxWords == 2

(***************************************************************************)
(* Python str and re                                                       *)
(***************************************************************************)

\* str.isspace() of one character: what str.strip() removes and \s matches.
IsSpace(c) == c \in {9, 10, 11, 12, 13, 28, 29, 30, 31, 32, 133, 160}

IsDigit(c) == c \in 48..57

\* \w of a str pattern: letters, digits and the underscore.
IsWord(c) ==
  \/ c \in 48..57 \/ c \in 65..90 \/ c \in 97..122 \/ c = 95
  \/ c \in 1040..1103 \/ c = 1025 \/ c = 1105

\* str.lower() of one character (Latin and Russian letters).
LowerChar(c) ==
  IF c \in 65..90 \/ c \in 1040..1071 THEN c + 32
  ELSE IF c = 1025 THEN 1105
  ELSE c

lower(s) == <<>> \o [i \in 1..Len(s) |-> LowerChar(s[i])]

\* str.strip(): leading and trailing whitespace removed.
strip(s) ==
  LET idx == {i \in 1..Len(s) : ~IsSpace(s[i])}
      Min(S) == CHOOSE x \in S : \A y \in S : x <= y
      Max(S) == CHOOSE x \in S : \A y \in S : x >= y
  IN  IF idx = {} THEN <<>> ELSE SubSeq(s, Min(idx), Max(idx))

\* needle in s
Contains(needle, s) ==
  \E i \in 0..(Len(s) - Len(needle)) :
    \A j \in 1..Len(needle) : s[i + j] = needle[j]

\* any(phrase in s for phrase in phrases)
AnyIn(phrases, s) == \E k \in 1..Len(phrases) : Contains(phrases[k], s)

\* sum(1 for phrase in phrases if phrase in s)
CountIn(phrases, s) == Cardinality({k \in 1..Len(phrases) : Contains(phrases[k], s)})

\* The items of a parsed regular expression: a literal string, a set of
\* characters or a character category repeated lo..hi times (hi = -1: no
\* upper limit), an alternation of sub-expressions, the word boundary \b.
Lit(s) == [k |-> "lit", s |-> s]
Cls(chars, lo, hi) == [k |-> "cls", chars |-> chars, lo |-> lo, hi |-> hi]
Cat(cat, lo, hi) == [k |-> "cat", cat |-> cat, lo |-> lo, hi |-> hi]
Alt(alts) == [k |-> "alt", alts |-> alts]
Bnd == [k |-> "bnd"]

\* Whether character c is one the single-character item matches.
ItemMatches(item, c) ==
  IF item.k = "cls" THEN c \in item.chars
  ELSE CASE item.cat = "d" -> IsDigit(c)
         [] item.cat = "s" -> IsSpace(c)
         [] item.cat = "w" -> IsWord(c)
         [] item.cat = "any" -> c # 10

\* The number of characters from position p on that the item matches, at
\* most limit.
RECURSIVE RunLength(_, _, _, _)
RunLength(item, s, p, limit) ==
  IF limit = 0 \/ p > Len(s) \/ ~ItemMatches(item, s[p]) THEN 0
  ELSE 1 + RunLength(item, s, p + 1, limit - 1)

\* \b at position p: exactly one of the characters before and at p is a
\* word character.
AtBoundary(s, p) ==
  LET before == p > 1 /\ IsWord(s[p - 1])
      after == p <= Len(s) /\ IsWord(s[p])
  IN  before # after

\* Whether the items k.. of the expression match s from position p on.
RECURSIVE MatchAt(_, _, _, _)
MatchAt(re, k, s, p) ==
  IF k > Len(re) THEN TRUE
  ELSE LET item == re[k] IN
    CASE item.k = "lit" ->
           /\ p + Len(item.s) - 1 <= Len(s)
           /\ \A j \in 1..Len(item.s) : s[p + j - 1] = item.s[j]
           /\ MatchAt(re, k + 1, s, p + Len(item.s))
      [] item.k = "bnd" -> AtBoundary(s, p) /\ MatchAt(re, k + 1, s, p)
      [] item.k = "alt" ->
           \E a \in 1..Len(item.alts) :
             MatchAt(item.alts[a] \o SubSeq(re, k + 1, Len(re)), 1, s, p)
      [] OTHER ->
           LET limit == IF item.hi = -1 THEN Len(s) ELSE item.hi
               run == RunLength(item, s, p, limit)
           IN  \E n \in item.lo..run : MatchAt(re, k + 1, s, p + n)

\* re.search(re, s) is not None
search(re, s) == \E p \in 1..(Len(s) + 1) : MatchAt(re, 1, s, p)

\* re.match(re, s) is not None
match(re, s) == MatchAt(re, 1, s, 1)

(***************************************************************************)
(* The tables of FraudAnalyzer.__init__ and the literals of its methods     *)
(***************************************************************************)

\* self.fraud_patterns (lines 20-52): the regular expression, the weight in hundredths, the type
fraud_patterns ==
  << \* r"перевед[иьте]\s+деньги"
     [pattern |-> <<Lit(<<1087, 1077, 1088, 1077, 1074, 1077, 1076>>), Cls({1080, 1100, 1090, 1077}, 1, 1), Cat("s", 1, -1), Lit(<<1076, 1077, 1085, 1100, 1075, 1080>>)>>,
      weight |-> 90, type |-> "financial"],
     \* r"оплат[иьте]\s+(штраф|счет|долг)"
     [pattern |-> <<Lit(<<1086, 1087, 1083, 1072, 1090>>), Cls({1080, 1100, 1090, 1077}, 1, 1), Cat("s", 1, -1), Alt(<<<<Lit(<<1096, 1090, 1088, 1072, 1092>>)>>, <<Lit(<<1089, 1095, 1077, 1090>>)>>, <<Lit(<<1076, 1086, 1083, 1075>>)>>>>)>>,
      weight |-> 80, type |-> "financial"],
     \* r"на\s+карт[уе]\s*\d{4}\s*\d{4}\s*\d{4}\s*\d{4}"
     [pattern |-> <<Lit(<<1085, 1072>>), Cat("s", 1, -1), Lit(<<1082, 1072, 1088, 1090>>), Cls({1091, 1077}, 1, 1), Cat("s", 0, -1), Cat("d", 4, 4), Cat("s", 0, -1), Cat("d", 4, 4), Cat("s", 0, -1), Cat("d", 4, 4), Cat("s", 0, -1), Cat("d", 4, 4)>>,
      weight |-> 100, type |-> "financial"],
     \* r"служб[аы]\s+безопасности"
     [pattern |-> <<Lit(<<1089, 1083, 1091, 1078, 1073>>), Cls({1072, 1099}, 1, 1), Cat("s", 1, -1), Lit(<<1073, 1077, 1079, 1086, 1087, 1072, 1089, 1085, 1086, 1089, 1090, 1080>>)>>,
      weight |-> 70, type |-> "authority"],
     \* r"техническ[ая|ой]\s+поддержк"
     [pattern |-> <<Lit(<<1090, 1077, 1093, 1085, 1080, 1095, 1077, 1089, 1082>>), Cls({1072, 1103, 124, 1086, 1081}, 1, 1), Cat("s", 1, -1), Lit(<<1087, 1086, 1076, 1076, 1077, 1088, 1078, 1082>>)>>,
      weight |-> 60, type |-> "authority"],
     \* r"юридическ[ая|ой]\s+компани"
     [pattern |-> <<Lit(<<1102, 1088, 1080, 1076, 1080, 1095, 1077, 1089, 1082>>), Cls({1072, 1103, 124, 1086, 1081}, 1, 1), Cat("s", 1, -1), Lit(<<1082, 1086, 1084, 1087, 1072, 1085, 1080>>)>>,
      weight |-> 70, type |-> "authority"],
     \* r"представитель\s+\w+"
     [pattern |-> <<Lit(<<1087, 1088, 1077, 1076, 1089, 1090, 1072, 1074, 1080, 1090, 1077, 1083, 1100>>), Cat("s", 1, -1), Cat("w", 1, -1)>>,
      weight |-> 50, type |-> "authority"],
     \* r"сбой\s+в\s+системе"
     [pattern |-> <<Lit(<<1089, 1073, 1086, 1081>>), Cat("s", 1, -1), Lit(<<1074>>), Cat("s", 1, -1), Lit(<<1089, 1080, 1089, 1090, 1077, 1084, 1077>>)>>,
      weight |-> 60, type |-> "technical"],
     \* r"обновлени[ея]\s+безопасности"
     [pattern |-> <<Lit(<<1086, 1073, 1085, 1086, 1074, 1083, 1077, 1085, 1080>>), Cls({1077, 1103}, 1, 1), Cat("s", 1, -1), Lit(<<1073, 1077, 1079, 1086, 1087, 1072, 1089, 1085, 1086, 1089, 1090, 1080>>)>>,
      weight |-> 60, type |-> "technical"],
     \* r"во\s+избежание\s+последствий"
     [pattern |-> <<Lit(<<1074, 1086>>), Cat("s", 1, -1), Lit(<<1080, 1079, 1073, 1077, 1078, 1072, 1085, 1080, 1077>>), Cat("s", 1, -1), Lit(<<1087, 1086, 1089, 1083, 1077, 1076, 1089, 1090, 1074, 1080, 1081>>)>>,
      weight |-> 80, type |-> "pressure"],
     \* r"правов[ы]?\s+последствий"
     [pattern |-> <<Lit(<<1087, 1088, 1072, 1074, 1086, 1074>>), Cls({1099}, 0, 1), Cat("s", 1, -1), Lit(<<1087, 1086, 1089, 1083, 1077, 1076, 1089, 1090, 1074, 1080, 1081>>)>>,
      weight |-> 70, type |-> "pressure"],
     \* r"рекомендуем\s+связаться"
     [pattern |-> <<Lit(<<1088, 1077, 1082, 1086, 1084, 1077, 1085, 1076, 1091, 1077, 1084>>), Cat("s", 1, -1), Lit(<<1089, 1074, 1103, 1079, 1072, 1090, 1100, 1089, 1103>>)>>,
      weight |-> 50, type |-> "pressure"],
     \* r"требуется\s+ваша\s+реакция"
     [pattern |-> <<Lit(<<1090, 1088, 1077, 1073, 1091, 1077, 1090, 1089, 1103>>), Cat("s", 1, -1), Lit(<<1074, 1072, 1096, 1072>>), Cat("s", 1, -1), Lit(<<1088, 1077, 1072, 1082, 1094, 1080, 1103>>)>>,
      weight |-> 60, type |-> "urgency"],
     \* r"в\s+течение\s+\d+\s+час"
     [pattern |-> <<Lit(<<1074>>), Cat("s", 1, -1), Lit(<<1090, 1077, 1095, 1077, 1085, 1080, 1077>>), Cat("s", 1, -1), Cat("d", 1, -1), Cat("s", 1, -1), Lit(<<1095, 1072, 1089>>)>>,
      weight |-> 70, type |-> "urgency"],
     \* r"подтверждени[ея]\s+данн"
     [pattern |-> <<Lit(<<1087, 1086, 1076, 1090, 1074, 1077, 1088, 1078, 1076, 1077, 1085, 1080>>), Cls({1077, 1103}, 1, 1), Cat("s", 1, -1), Lit(<<1076, 1072, 1085, 1085>>)>>,
      weight |-> 60, type |-> "personal_data"],
     \* r"верификаци[яи]\s+профил"
     [pattern |-> <<Lit(<<1074, 1077, 1088, 1080, 1092, 1080, 1082, 1072, 1094, 1080>>), Cls({1103, 1080}, 1, 1), Cat("s", 1, -1), Lit(<<1087, 1088, 1086, 1092, 1080, 1083>>)>>,
      weight |-> 60, type |-> "personal_data"],
     \* r"ответьте\s+цифрой"
     [pattern |-> <<Lit(<<1086, 1090, 1074, 1077, 1090, 1100, 1090, 1077>>), Cat("s", 1, -1), Lit(<<1094, 1080, 1092, 1088, 1086, 1081>>)>>,
      weight |-> 50, type |-> "confirmation"],
     \* r"оставьте\s+комментарий"
     [pattern |-> <<Lit(<<1086, 1089, 1090, 1072, 1074, 1100, 1090, 1077>>), Cat("s", 1, -1), Lit(<<1082, 1086, 1084, 1084, 1077, 1085, 1090, 1072, 1088, 1080, 1081>>)>>,
      weight |-> 40, type |-> "confirmation"],
     \* r"супер\s+выгодную\s+акцию"
     [pattern |-> <<Lit(<<1089, 1091, 1087, 1077, 1088>>), Cat("s", 1, -1), Lit(<<1074, 1099, 1075, 1086, 1076, 1085, 1091, 1102>>), Cat("s", 1, -1), Lit(<<1072, 1082, 1094, 1080, 1102>>)>>,
      weight |-> 70, type |-> "reward"],
     \* r"уникальная\s+возможность"
     [pattern |-> <<Lit(<<1091, 1085, 1080, 1082, 1072, 1083, 1100, 1085, 1072, 1103>>), Cat("s", 1, -1), Lit(<<1074, 1086, 1079, 1084, 1086, 1078, 1085, 1086, 1089, 1090, 1100>>)>>,
      weight |-> 60, type |-> "reward"],
     \* r"частный\s+инвестор"
     [pattern |-> <<Lit(<<1095, 1072, 1089, 1090, 1085, 1099, 1081>>), Cat("s", 1, -1), Lit(<<1080, 1085, 1074, 1077, 1089, 1090, 1086, 1088>>)>>,
      weight |-> 50, type |-> "investment"],
     \* r"надежных\s+партнеров"
     [pattern |-> <<Lit(<<1085, 1072, 1076, 1077, 1078, 1085, 1099, 1093>>), Cat("s", 1, -1), Lit(<<1087, 1072, 1088, 1090, 1085, 1077, 1088, 1086, 1074>>)>>,
      weight |-> 50, type |-> "investment"] >>

\* self.red_flags (lines 55-61)
red_flags ==
  << <<1089, 1088, 1086, 1095, 1085, 1086>>, \* 'срочно'
     <<1085, 1077, 1084, 1077, 1076, 1083, 1077, 1085, 1085, 1086>>, \* 'немедленно'
     <<1087, 1077, 1088, 1077, 1074, 1077, 1076, 1080, 1090, 1077>>, \* 'переведите'
     <<1086, 1087, 1083, 1072, 1090, 1080, 1090, 1077>>, \* 'оплатите'
     <<1079, 1072, 1073, 1083, 1086, 1082, 1080, 1088, 1086, 1074, 1072, 1085>>, \* 'заблокирован'
     <<1074, 1099, 1080, 1075, 1088, 1072, 1083>>, \* 'выиграл'
     <<1087, 1088, 1080, 1079>>, \* 'приз'
     <<1096, 1090, 1088, 1072, 1092>>, \* 'штраф'
     <<1076, 1086, 1083, 1075>>, \* 'долг'
     <<1073, 1072, 1085, 1082>>, \* 'банк'
     <<1082, 1072, 1088, 1090>>, \* 'карт'
     <<1087, 1072, 1089, 1087, 1086, 1088, 1090>>, \* 'паспорт'
     <<1088, 1072, 1079, 1073, 1083, 1086, 1082, 1080, 1088, 1086, 1074, 1082, 1080>>, \* 'разблокировки'
     <<1089, 1095, 1077, 1090>>, \* 'счет'
     <<1076, 1077, 1085, 1100, 1075, 1080>>, \* 'деньги'
     <<1087, 1077, 1088, 1077, 1074, 1086, 1076>>, \* 'перевод'
     <<1073, 1077, 1079, 1086, 1087, 1072, 1089, 1085, 1086, 1089, 1090>>, \* 'безопасност'
     <<1087, 1086, 1076, 1090, 1074, 1077, 1088, 1078, 1076, 1077, 1085, 1080>>, \* 'подтверждени'
     <<1074, 1077, 1088, 1080, 1092, 1080, 1082, 1072, 1094>>, \* 'верификац'
     <<1088, 1077, 1082, 1074, 1080, 1079, 1080, 1090>>, \* 'реквизит'
     <<1076, 1072, 1085, 1085>>, \* 'данн'
     <<1087, 1088, 1086, 1074, 1077, 1088, 1082>>, \* 'проверк'
     <<1072, 1082, 1094, 1080>>, \* 'акци'
     <<1074, 1099, 1075, 1086, 1076, 1085>>, \* 'выгодн'
     <<1074, 1086, 1079, 1084, 1086, 1078, 1085, 1086, 1089, 1090>>, \* 'возможност'
     <<1080, 1085, 1074, 1077, 1089, 1090>>, \* 'инвест'
     <<1087, 1072, 1088, 1090, 1085, 1077, 1088>> >> \* 'партнер'

\* self.context_triggers (lines 64-70), in the dict's insertion order
context_triggers ==
  << [context_type |-> "authority_impersonation", triggers |-> <<
       <<1089, 1083, 1091, 1078, 1073, 1072, 32, 1073, 1077, 1079, 1086, 1087, 1072, 1089, 1085, 1086, 1089, 1090, 1080>>, \* 'служба безопасности'
       <<1090, 1077, 1093, 1085, 1080, 1095, 1077, 1089, 1082, 1072, 1103, 32, 1087, 1086, 1076, 1076, 1077, 1088, 1078, 1082, 1072>>, \* 'техническая поддержка'
       <<1102, 1088, 1080, 1076, 1080, 1095, 1077, 1089, 1082, 1072, 1103>>, \* 'юридическая'
       <<1087, 1088, 1077, 1076, 1089, 1090, 1072, 1074, 1080, 1090, 1077, 1083, 1100>> >>], \* 'представитель'
     [context_type |-> "urgency_pressure", triggers |-> <<
       <<1089, 1088, 1086, 1095, 1085, 1086>>, \* 'срочно'
       <<1085, 1077, 1084, 1077, 1076, 1083, 1077, 1085, 1085, 1086>>, \* 'немедленно'
       <<1074, 32, 1090, 1077, 1095, 1077, 1085, 1080, 1077>>, \* 'в течение'
       <<1089, 1082, 1086, 1088, 1077, 1077>>, \* 'скорее'
       <<1087, 1086, 1089, 1083, 1077, 1076, 1085, 1080, 1081, 32, 1096, 1072, 1085, 1089>> >>], \* 'последний шанс'
     [context_type |-> "confirmation_tricks", triggers |-> <<
       <<1086, 1090, 1074, 1077, 1090, 1100, 1090, 1077>>, \* 'ответьте'
       <<1087, 1086, 1076, 1090, 1074, 1077, 1088, 1076, 1080, 1090, 1077>>, \* 'подтвердите'
       <<1074, 1077, 1076, 1080, 1090, 1077, 32, 1082, 1086, 1076>>, \* 'ведите код'
       <<1086, 1089, 1090, 1072, 1074, 1100, 1090, 1077, 32, 1082, 1086, 1084, 1084, 1077, 1085, 1090, 1072, 1088, 1080, 1081>> >>], \* 'оставьте комментарий'
     [context_type |-> "financial_enticement", triggers |-> <<
       <<1074, 1099, 1075, 1086, 1076, 1085, 1086>>, \* 'выгодно'
       <<1072, 1082, 1094, 1080, 1103>>, \* 'акция'
       <<1073, 1086, 1085, 1091, 1089>>, \* 'бонус'
       <<1087, 1088, 1080, 1079>>, \* 'приз'
       <<1076, 1086, 1093, 1086, 1076, 1085, 1086, 1089, 1090, 1100>> >>], \* 'доходность'
     [context_type |-> "technical_pretext", triggers |-> <<
       <<1089, 1073, 1086, 1081>>, \* 'сбой'
       <<1086, 1073, 1085, 1086, 1074, 1083, 1077, 1085, 1080, 1077>>, \* 'обновление'
       <<1087, 1088, 1086, 1074, 1077, 1088, 1082, 1072>>, \* 'проверка'
       <<1074, 1077, 1088, 1080, 1092, 1080, 1082, 1072, 1094, 1080, 1103>> >>] >> \* 'верификация'

\* The literals of _analyze_message_structure, _analyze_psychological_pressure
\* and _contextual_analysis.
formal_phrases ==
  << <<1074, 32, 1088, 1072, 1084, 1082, 1072, 1093>>, \* 'в рамках'
     <<1087, 1086, 32, 1085, 1072, 1096, 1080, 1084, 32, 1076, 1072, 1085, 1085, 1099, 1084>>, \* 'по нашим данным'
     <<1090, 1088, 1077, 1073, 1091, 1077, 1090, 1089, 1103>>, \* 'требуется'
     <<1088, 1077, 1082, 1086, 1084, 1077, 1085, 1076, 1091, 1077, 1084>>, \* 'рекомендуем'
     <<1087, 1088, 1077, 1076, 1083, 1072, 1075, 1072, 1077, 1084>> >> \* 'предлагаем'
urgency_words ==
  << <<1089, 1088, 1086, 1095, 1085, 1086>>, \* 'срочно'
     <<1085, 1077, 1084, 1077, 1076, 1083, 1077, 1085, 1085, 1086>> >> \* 'немедленно'
request_words ==
  << <<1090, 1088, 1077, 1073, 1091, 1077, 1090, 1089, 1103>>, \* 'требуется'
     <<1088, 1077, 1082, 1086, 1084, 1077, 1085, 1076, 1091, 1077, 1084>> >> \* 'рекомендуем'
threat_phrases ==
  << <<1074, 1086, 32, 1080, 1079, 1073, 1077, 1078, 1072, 1085, 1080, 1077>>, \* 'во избежание'
     <<1087, 1086, 1089, 1083, 1077, 1076, 1089, 1090, 1074, 1080, 1081>>, \* 'последствий'
     <<1087, 1088, 1072, 1074, 1086, 1074, 1099, 1093>> >> \* 'правовых'
artificial_urgency_phrases ==
  << <<1074, 32, 1090, 1077, 1095, 1077, 1085, 1080, 1077, 32, 1095, 1072, 1089, 1072>>, \* 'в течение часа'
     <<1089, 1082, 1086, 1088, 1077, 1077>>, \* 'скорее'
     <<1087, 1086, 1089, 1083, 1077, 1076, 1085, 1080, 1081, 32, 1096, 1072, 1085, 1089>> >> \* 'последний шанс'
simple_action_phrases ==
  << <<1087, 1088, 1086, 1089, 1090, 1086, 32, 1086, 1090, 1074, 1077, 1090, 1100, 1090, 1077>>, \* 'просто ответьте'
     <<1074, 1077, 1076, 1080, 1090, 1077, 32, 1094, 1080, 1092, 1088, 1091>>, \* 'ведите цифру'
     <<1086, 1089, 1090, 1072, 1074, 1100, 1090, 1077, 32, 1082, 1086, 1084, 1084, 1077, 1085, 1090, 1072, 1088, 1080, 1081>> >> \* 'оставьте комментарий'
\* r'(Здравствуйте|Уважаем|Добрый день).*!'
greeting_re ==
  << Alt(<<<<Lit(<<1047, 1076, 1088, 1072, 1074, 1089, 1090, 1074, 1091, 1081, 1090, 1077>>)>>, <<Lit(<<1059, 1074, 1072, 1078, 1072, 1077, 1084>>)>>, <<Lit(<<1044, 1086, 1073, 1088, 1099, 1081, 32, 1076, 1077, 1085, 1100>>)>>>>),
     Cat("any", 0, -1),
     Lit(<<33>>) >>
\* r'\b\d{4}\s*\d{4}\s*\d{4}\s*\d{4}\b'
card_number_re ==
  << Bnd,
     Cat("d", 4, 4),
     Cat("s", 0, -1),
     Cat("d", 4, 4),
     Cat("s", 0, -1),
     Cat("d", 4, 4),
     Cat("s", 0, -1),
     Cat("d", 4, 4),
     Bnd >>
\* r'\d+\s*(рубл|руб|₽|рублей|р\.|₽)'
currency_re ==
  << Cat("d", 1, -1),
     Cat("s", 0, -1),
     Alt(<<<<Lit(<<1088, 1091, 1073, 1083>>)>>, <<Lit(<<1088, 1091, 1073>>)>>, <<Lit(<<8381>>)>>, <<Lit(<<1088, 1091, 1073, 1083, 1077, 1081>>)>>, <<Lit(<<1088, 46>>)>>, <<Lit(<<8381>>)>>>>) >>

(***************************************************************************)
(* Messages: words of a vocabulary joined by single spaces                 *)
(***************************************************************************)

Vocabulary ==
  {"", "ok", "privet", "zdravstvuyte", "srochno", "trebuetsya", "v_ramkah",
   "posledstviy", "bonus", "bank", "rub", "card", "na_kartu", "perevedi", "kommentariy"}

\* The text of a vocabulary word.
Chars(w) ==
  CASE w = "" -> <<>>
    [] w = "ok" -> <<1086, 1082>> \* ок
    [] w = "privet" -> \* Привет, как дела?
         <<1055, 1088, 1080, 1074, 1077, 1090, 44, 32, 1082, 1072, 1082, 32, 1076, 1077, 1083, 1072, 63>>
    [] w = "zdravstvuyte" -> \* Здравствуйте!
         <<1047, 1076, 1088, 1072, 1074, 1089, 1090, 1074, 1091, 1081, 1090, 1077, 33>>
    [] w = "srochno" -> <<1057, 1088, 1086, 1095, 1085, 1086>> \* Срочно
    [] w = "trebuetsya" -> \* требуется
         <<1090, 1088, 1077, 1073, 1091, 1077, 1090, 1089, 1103>>
    [] w = "v_ramkah" -> <<1074, 32, 1088, 1072, 1084, 1082, 1072, 1093>> \* в рамках
    [] w = "posledstviy" -> \* последствий
         <<1087, 1086, 1089, 1083, 1077, 1076, 1089, 1090, 1074, 1080, 1081>>
    [] w = "bonus" -> <<1073, 1086, 1085, 1091, 1089>> \* бонус
    [] w = "bank" -> <<1073, 1072, 1085, 1082>> \* банк
    [] w = "rub" -> <<49, 48, 48, 32, 1088, 1091, 1073>> \* 100 руб
    [] w = "card" -> \* 1234 5678 9012 3456
         <<49, 50, 51, 52, 32, 53, 54, 55, 56, 32, 57, 48, 49, 50, 32, 51, 52, 53, 54>>
    [] w = "na_kartu" -> <<1085, 1072, 32, 1082, 1072, 1088, 1090, 1091>> \* на карту
    [] w = "perevedi" -> \* переведи деньги
         <<1087, 1077, 1088, 1077, 1074, 1077, 1076, 1080, 32, 1076, 1077, 1085, 1100, 1075, 1080>>
    [] w = "kommentariy" -> \* оставьте комментарий
         <<1086, 1089, 1090, 1072, 1074, 1100, 1090, 1077, 32, 1082, 1086, 1084, 1084, 1077, 1085, 1090, 1072, 1088, 1080, 1081>>

\* The messages analyze_message is called with.
Messages == UNION {[1..n -> Vocabulary] : n \in 0..MaxWords}

\* The str a message is: its words joined by single spaces.
RECURSIVE Text(_)
Text(words) ==
  IF words = <<>> THEN <<>>
  ELSE IF Len(words) = 1 THEN Chars(words[1])
  ELSE Chars(words[1]) \o <<32>> \o Text(Tail(words))

(***************************************************************************)
(* FraudAnalyzer                                                           *)
(***************************************************************************)

\* Python's None.
None == [none |-> TRUE]

\* bool(self.api_key): None and the empty string are false.
Truthy(key) == key \notin {"None", ""}

\* The fixed texts of the results.
TooShortReason == [kind |-> "Soobshchenie slishkom korotkoe", parts |-> <<>>] \* Сообщение слишком короткое
NoIndicatorsReason == [kind |-> "Kontekstnyy analiz: priznaki ne obnaruzheny", parts |-> <<>>] \* Контекстный анализ: признаки не обнаружены
AiFraudReason == [kind |-> "AI: obnaruzheny priznaki sotsialnoy inzhenerii", parts |-> <<>>] \* AI: обнаружены признаки социальной инженерии
AiManipulationReason == [kind |-> "AI: vozmozhny elementy manipulyatsii", parts |-> <<>>] \* AI: возможны элементы манипуляции

\* Fault: inclusive cut points.
_get_risk_level_inclusive(score) ==
  IF score >= 70 THEN "vysokiy"
  ELSE IF score >= 50 THEN "sredniy"
  ELSE IF score >= 30 THEN "nizkiy"
  ELSE "minimalnyy"

_get_risk_level(score) ==
  IF score > 70 THEN "vysokiy" \* высокий
  ELSE IF score > 50 THEN "sredniy" \* средний
  ELSE IF score > 30 THEN "nizkiy" \* низкий
  ELSE "minimalnyy" \* минимальный

\* risk_level is never passed by a caller, so it is always derived.
_create_response(is_fraud, confidence, reason, ai_used) ==
  [is_fraud |-> is_fraud,
   confidence |-> confidence,
   risk_level |-> _get_risk_level(confidence),
   reason |-> reason,
   ai_used |-> ai_used]

\* Fault: no clamping.
min_unclamped(a, b) == a

\* min(a, b)
min(a, b) == IF a < b THEN a ELSE b

\* set(list)
set(list) == {list[i] : i \in 1..Len(list)}

_analyze_message_structure(message) ==
  LET greeting == IF match(greeting_re, message) THEN 20 ELSE 0
      formal == IF CountIn(formal_phrases, lower(message)) >= 2 THEN 30 ELSE 0
      urgent == IF AnyIn(urgency_words, lower(message)) /\ AnyIn(request_words, lower(message))
                THEN 40 ELSE 0
  IN  greeting + formal + urgent

_analyze_psychological_pressure(message) ==
  LET text_lower == lower(message)
      threat == IF AnyIn(threat_phrases, text_lower) THEN 40 ELSE 0
      urgency == IF AnyIn(artificial_urgency_phrases, text_lower) THEN 30 ELSE 0
      action == IF AnyIn(simple_action_phrases, text_lower) THEN 30 ELSE 0
  IN  threat + urgency + action

\* Fault: structure and pressure reported as soon as they score at all.
_generate_detailed_reason_any_score(patterns, contexts, red_flags_n, structure, pressure) ==
  LET reasons ==
        (IF patterns # <<>> THEN << [label |-> "patterny", items |-> {patterns[i] : i \in 1..Len(patterns)}, n |-> 0] >> ELSE <<>>)
        \o (IF contexts # <<>> THEN << [label |-> "kontekst", items |-> {contexts[i] : i \in 1..Len(contexts)}, n |-> 0] >> ELSE <<>>)
        \o (IF red_flags_n > 0 THEN << [label |-> "klyuchevye slova", items |-> {}, n |-> red_flags_n] >> ELSE <<>>)
        \o (IF structure > 0 THEN << [label |-> "podozritelnaya struktura", items |-> {}, n |-> 0] >> ELSE <<>>)
        \o (IF pressure > 0 THEN << [label |-> "psikhologicheskoe davlenie", items |-> {}, n |-> 0] >> ELSE <<>>)
  IN  IF reasons = <<>> THEN NoIndicatorsReason
      ELSE [kind |-> "Kontekstnyy analiz: ", parts |-> reasons]

_generate_detailed_reason(patterns, contexts, red_flags_n, structure, pressure) ==
  LET reasons ==
        (IF patterns # <<>> THEN << [label |-> "patterny", items |-> set(patterns), n |-> 0] >> ELSE <<>>)
        \o (IF contexts # <<>> THEN << [label |-> "kontekst", items |-> set(contexts), n |-> 0] >> ELSE <<>>)
        \o (IF red_flags_n > 0 THEN << [label |-> "klyuchevye slova", items |-> {}, n |-> red_flags_n] >> ELSE <<>>)
        \o (IF structure > 30 THEN << [label |-> "podozritelnaya struktura", items |-> {}, n |-> 0] >> ELSE <<>>)
        \o (IF pressure > 30 THEN << [label |-> "psikhologicheskoe davlenie", items |-> {}, n |-> 0] >> ELSE <<>>)
  IN  IF reasons = <<>> THEN NoIndicatorsReason
      ELSE [kind |-> "Kontekstnyy analiz: ", parts |-> reasons]

\* The sum of the weights of a list of patterns.
RECURSIVE SumWeights(_)
SumWeights(patterns) ==
  IF patterns = <<>> THEN 0 ELSE Head(patterns).weight + SumWeights(Tail(patterns))

\* The local variables of _contextual_analysis when it reaches its return.
ContextLocals(message) ==
  LET text_lower == lower(message)
      Matches(p) == search(p.pattern, text_lower)
      matched == SelectSeq(fraud_patterns, Matches)
      Fires(g) == AnyIn(g.triggers, text_lower)
      fired == SelectSeq(context_triggers, Fires)
      structure_score == _analyze_message_structure(message)
      pressure_score == _analyze_psychological_pressure(message)
      red_flag_count == CountIn(red_flags, text_lower)
      card == IF search(card_number_re, text_lower) THEN 80 ELSE 0
      currency == IF search(currency_re, text_lower) THEN 40 ELSE 0
  IN  [detected_patterns |-> [i \in 1..Len(matched) |-> matched[i].type],
       context_indicators |-> [i \in 1..Len(fired) |-> fired[i].context_type],
       structure_score |-> structure_score,
       pressure_score |-> pressure_score,
       red_flag_count |-> red_flag_count,
       bonus |-> card + currency,
       total_score |-> min(SumWeights(matched) + 30 * Len(fired) + structure_score
                           + pressure_score + red_flag_count * 20 + card + currency, 100)]

\* Fault: the content-only verdict decided against 0.2.
ContextResult_threshold_02(l) ==
  _create_response(
    l.total_score > 20,
    l.total_score,
    _generate_detailed_reason(l.detected_patterns, l.context_indicators,
                              l.red_flag_count, l.structure_score, l.pressure_score),
    FALSE)

\* What _contextual_analysis returns, given its locals.
ContextResult(l) ==
  _create_response(
    l.total_score > 30,
    l.total_score,
    _generate_detailed_reason(l.detected_patterns, l.context_indicators,
                              l.red_flag_count, l.structure_score, l.pressure_score),
    FALSE)

_contextual_analysis(message) == ContextResult(ContextLocals(message))


(***************************************************************************)
(* The external classifier: the outcomes of requests.post and the JSON     *)
(* bodies of its responses                                                 *)
(***************************************************************************)

\* JSON values, as response.json() builds them.
JNull == [t |-> "null", v |-> <<>>]
JStr(s) == [t |-> "str", v |-> s]
JList(items) == [t |-> "list", v |-> items]
JDict(fields) == [t |-> "dict", v |-> fields]

\* The bodies a response may carry.
Bodies ==
  << JDict([error |-> JStr(<<108, 111, 97, 100, 105, 110, 103>>)]), \* {"error": "loading"}: not a list
     JNull, \* null: not a list
     JList(<<>>), \* []
     JList(<< JStr(<<70, 82, 65, 85, 68, 58, 32, 121, 101, 115>>) >>), \* ["FRAUD: yes"]: the first element is no object
     JList(<< JDict(<<>>) >>), \* [{}]: no generated_text field
     JList(<< JDict([generated_text |-> JNull]) >>), \* [{"generated_text": null}]
     JList(<< JDict([generated_text |-> JList(<<>>)]) >>), \* [{"generated_text": []}]
     JList(<< JDict([generated_text |-> JStr(<<>>)]) >>), \* [{"generated_text": ""}]
     \* [{"generated_text": "FRAUD: yes, CONFIDENCE: 90%"}]
     JList(<< JDict([generated_text |-> JStr(<<70, 82, 65, 85, 68, 58, 32, 121, 101, 115, 44, 32, 67, 79, 78, 70, 73, 68, 69, 78, 67, 69, 58, 32, 57, 48, 37>>)]) >>),
     \* [{"generated_text": "Это мошенничество"}]
     JList(<< JDict([generated_text |-> JStr(<<1069, 1090, 1086, 32, 1084, 1086, 1096, 1077, 1085, 1085, 1080, 1095, 1077, 1089, 1090, 1074, 1086>>)]) >>),
     \* [{"generated_text": "FRAUD: no"}]
     JList(<< JDict([generated_text |-> JStr(<<70, 82, 65, 85, 68, 58, 32, 110, 111>>)]) >>) >>

\* How requests.post may end: an exception (a connection error, the
\* timeout of 25 s), or a response with a status code and a body that is
\* JSON or is not.
HttpOutcomes ==
  << [kind |-> "ConnectionError", status_code |-> 0, valid_json |-> FALSE, body |-> JNull],
     [kind |-> "Timeout", status_code |-> 0, valid_json |-> FALSE, body |-> JNull],
     [kind |-> "response", status_code |-> 503, valid_json |-> TRUE, body |-> Bodies[1]],
     [kind |-> "response", status_code |-> 401, valid_json |-> FALSE, body |-> JNull],
     [kind |-> "response", status_code |-> 200, valid_json |-> FALSE, body |-> JNull] >>
  \o [i \in 1..Len(Bodies) |->
       [kind |-> "response", status_code |-> 200, valid_json |-> TRUE, body |-> Bodies[i]]]

\* How a call ends: it returns a value or raises an exception.
Return(v) == [raised |-> FALSE, value |-> v]
Raise == [raised |-> TRUE, value |-> None]

fraud_yes == <<102, 114, 97, 117, 100, 58, 32, 121, 101, 115>> \* 'fraud: yes'
moshennichestvo == \* 'мошенничество'
  <<1084, 1086, 1096, 1077, 1085, 1085, 1080, 1095, 1077, 1089, 1090, 1074, 1086>>

_parse_ai_response(ai_data) ==
  LET try ==
        IF ai_data.t = "list" /\ Len(ai_data.v) > 0 THEN
          LET first == ai_data.v[1] IN
          IF first.t # "dict" THEN Raise \* AttributeError: no get
          ELSE
            LET generated_text ==
                  IF "generated_text" \in DOMAIN first.v THEN first.v["generated_text"]
                  ELSE JStr(<<>>)
            IN
            IF generated_text.t # "str" THEN Raise \* AttributeError: no lower
            ELSE
              LET text_lower == lower(generated_text.v)
                  found == Contains(fraud_yes, text_lower) \/ Contains(moshennichestvo, text_lower)
                  confidence == IF found THEN 70 ELSE 30
                  reason == IF found THEN AiFraudReason ELSE AiManipulationReason
              IN  Return([is_fraud |-> confidence > 50,
                          confidence |-> confidence,
                          reason |-> reason,
                          ai_used |-> TRUE])
        ELSE Return(None)
  IN  IF try.raised THEN None ELSE try.value

\* Fault: _analyze_with_ai without its except clause.
_analyze_with_ai_no_except(outcome) ==
  IF outcome.kind # "response" THEN Raise
  ELSE IF outcome.status_code = 200 THEN
    IF outcome.valid_json THEN Return(_parse_ai_response(outcome.body))
    ELSE Raise
  ELSE Return(None)

\* _analyze_with_ai from the point where requests.post ends with outcome.
_analyze_with_ai(outcome) ==
  LET try ==
        IF outcome.kind # "response" THEN Raise
        ELSE IF outcome.status_code = 200 THEN
          IF outcome.valid_json THEN Return(_parse_ai_response(outcome.body))
          ELSE Raise \* response.json() raises
        ELSE Return(None)
  IN  IF try.raised THEN Return(None) ELSE try

\* Fault: the blend decided against the content-only threshold 0.3.
_combine_results_threshold_03(contextual, ai) ==
  LET combined_confidence == (contextual.confidence + ai.confidence) \div 2 IN
  [is_fraud |-> combined_confidence > 30,
   confidence |-> combined_confidence,
   reason |-> [kind |-> " | ", parts |-> <<contextual.reason, ai.reason>>],
   risk_level |-> _get_risk_level(combined_confidence),
   ai_used |-> TRUE]

_combine_results(contextual, ai) ==
  LET combined_confidence == (contextual.confidence + ai.confidence) \div 2 IN
  [is_fraud |-> combined_confidence > 40,
   confidence |-> combined_confidence,
   reason |-> [kind |-> " | ", parts |-> <<contextual.reason, ai.reason>>],
   risk_level |-> _get_risk_level(combined_confidence),
   ai_used |-> TRUE]

\* Fault: the length taken without strip().
too_short_unstripped(message) == message = <<>> \/ Len(message) < 3

\* not message or len(message.strip()) < 3
too_short(message) == message = <<>> \/ Len(strip(message)) < 3

\* Fault: the adapter called whether or not a key is set.
api_enabled_always(key) == TRUE

\* if self.api_key
api_enabled(key) == Truthy(key)

\* analyze_message after _analyze_with_ai ended as call did.
after_ai(contextual, call) ==
  IF call.raised THEN Raise
  ELSE IF call.value # None THEN Return(_combine_results(contextual, call.value))
  ELSE Return(contextual)

(***************************************************************************)
(* The process: the health-check thread, main() and the message handler    *)
(***************************************************************************)

\* The values of the environment variables HF_API_KEY and BOT_TOKEN: unset,
\* empty, set ("bad" is a token Telegram rejects).
ApiKeys == {"None", "", "hf_key"}
BotTokens == {"None", "", "bad", "good"}

\* Fault: a health-check thread that is no daemon.
daemon_false == FALSE

\* Thread(target=run_web, daemon=True)
daemon == TRUE

\* The messages the handler receives in the specification of the process.
HandledMessages == {<<"ok">>, <<"privet">>, <<"srochno", "trebuetsya">>}

VARIABLES
  api_key,          \* FraudAnalyzer.api_key
  pc,               \* where analyze_message is: "idle", "http" (in requests.post), "returned"
  message,          \* the words of the message being analysed
  locals,           \* the locals of _contextual_analysis, None when it did not run
  context_result,   \* what _contextual_analysis returned
  response,         \* how requests.post ended
  ai_result,        \* what _analyze_with_ai returned
  result,           \* what analyze_message returned
  raised,           \* whether analyze_message raised instead
  contextual_calls, \* calls of _contextual_analysis in this run
  ai_calls,         \* calls of requests.post in this run
  bot_token,        \* BOT_TOKEN
  main_pc,          \* where the main thread is: "import", "main", "polling", "exited"
  web_thread,       \* "not_started", "starting", "serving", "failed", "killed"
  health            \* the last answer a health-check client got, and pc at that time

run_vars == <<message, locals, context_result, response, ai_result, result, raised,
              contextual_calls, ai_calls>>
process_vars == <<bot_token, main_pc, web_thread>>
vars == <<api_key, pc, run_vars, process_vars, health>>

\* No analysis is running.
Idle ==
  /\ pc = "idle"
  /\ message = <<>>
  /\ locals = None
  /\ context_result = None
  /\ response = None
  /\ ai_result = None
  /\ result = None
  /\ raised = FALSE
  /\ contextual_calls = 0
  /\ ai_calls = 0

\* The bot is up: the analyzer is constructed, the health-check thread
\* serves, run_polling waits for messages.
Init ==
  /\ api_key \in ApiKeys
  /\ Idle
  /\ bot_token = "good"
  /\ main_pc = "polling"
  /\ web_thread = "serving"
  /\ health = [answer |-> "none", during |-> "idle"]

\* The process starts: the module is being imported.
InitMain ==
  /\ api_key \in ApiKeys
  /\ Idle
  /\ bot_token \in BotTokens
  /\ main_pc = "import"
  /\ web_thread = "not_started"
  /\ health = [answer |-> "none", during |-> "idle"]

\* handle_message receives one of texts and calls analyze_message, which runs
\* to its return or to requests.post.
handle_message(texts) ==
  /\ main_pc = "polling"
  /\ pc = "idle"
  /\ \E m \in texts :
       /\ message' = m
       /\ IF too_short(Text(m))
          THEN /\ result' = _create_response(FALSE, 0, TooShortReason, FALSE)
               /\ pc' = "returned"
               /\ UNCHANGED <<locals, context_result, contextual_calls, ai_calls>>
          ELSE /\ locals' = ContextLocals(Text(m))
               /\ context_result' = ContextResult(locals')
               /\ contextual_calls' = contextual_calls + 1
               /\ IF api_enabled(api_key)
                  THEN /\ pc' = "http"
                       /\ ai_calls' = ai_calls + 1
                       /\ UNCHANGED result
                  ELSE /\ pc' = "returned"
                       /\ result' = context_result'
                       /\ UNCHANGED ai_calls
  /\ UNCHANGED <<api_key, response, ai_result, raised, process_vars, health>>

\* requests.post ends; _analyze_with_ai and analyze_message run to their
\* return.
http_completes ==
  /\ pc = "http"
  /\ \E i \in 1..Len(HttpOutcomes) :
       LET call == _analyze_with_ai(HttpOutcomes[i])
           end == after_ai(context_result, call)
       IN  /\ response' = HttpOutcomes[i]
           /\ ai_result' = call.value
           /\ raised' = end.raised
           /\ result' = end.value
  /\ pc' = "returned"
  /\ UNCHANGED <<api_key, message, locals, context_result, contextual_calls, ai_calls,
                 process_vars, health>>

\* handle_message sends its reply (the verdict, or the apology when the
\* analysis raised) and returns to run_polling.
reply ==
  /\ pc = "returned"
  /\ pc' = "idle"
  /\ message' = <<>>
  /\ locals' = None
  /\ context_result' = None
  /\ response' = None
  /\ ai_result' = None
  /\ result' = None
  /\ raised' = FALSE
  /\ contextual_calls' = 0
  /\ ai_calls' = 0
  /\ UNCHANGED <<api_key, process_vars, health>>

\* The main thread leaves main(): the interpreter exits and takes the
\* daemon threads with it.
Exited(thread) ==
  IF daemon /\ thread \in {"starting", "serving"} THEN "killed" ELSE thread

\* web_thread.start()
start_web_thread ==
  /\ main_pc = "import"
  /\ main_pc' = "main"
  /\ web_thread' = "starting"
  /\ UNCHANGED <<api_key, pc, run_vars, bot_token, health>>

\* run_web: app.run binds the port and serves, or raises (the port is taken).
run_web ==
  /\ web_thread = "starting"
  /\ web_thread' \in {"serving", "failed"}
  /\ UNCHANGED <<api_key, pc, run_vars, bot_token, main_pc, health>>

\* main() up to run_polling: without a token it returns; building the
\* application or starting to poll may raise, which main catches and returns.
main ==
  /\ main_pc = "main"
  /\ IF ~Truthy(bot_token) \/ bot_token = "bad"
     THEN main_pc' = "exited"
     ELSE main_pc' \in {"polling", "exited"}
  /\ web_thread' = IF main_pc' = "exited" THEN Exited(web_thread) ELSE web_thread
  /\ UNCHANGED <<api_key, pc, run_vars, bot_token, health>>

\* run_polling ends, stopped by a signal or by an exception main catches.
polling_ends ==
  /\ main_pc = "polling"
  /\ pc = "idle"
  /\ main_pc' = "exited"
  /\ web_thread' = Exited(web_thread)
  /\ UNCHANGED <<api_key, pc, run_vars, bot_token, health>>

\* home and health: a client requests / or /health while analyze_message is
\* where pc says.
health_request ==
  /\ \E path \in {"/", "/health"} :
       health' = [answer |-> IF web_thread # "serving" THEN "refused"
                             ELSE IF path = "/" THEN "Bot is running" ELSE "OK",
                  during |-> pc]
  /\ UNCHANGED <<api_key, pc, run_vars, process_vars>>

\* The analyzer, called message after message.
Next ==
  \/ handle_message(Messages)
  \/ http_completes
  \/ reply

Spec == Init /\ [][Next]_vars

\* The whole process.
NextMain ==
  \/ start_web_thread
  \/ run_web
  \/ main
  \/ polling_ends
  \/ health_request
  \/ handle_message(HandledMessages)
  \/ http_completes
  \/ reply

SpecMain == InitMain /\ [][NextMain]_vars


(***************************************************************************)
(* The claims                                                              *)
(***************************************************************************)

\* The risk levels as the specification states them.
RiskLevelOf(confidence) ==
  IF confidence > 70 THEN "vysokiy"
  ELSE IF confidence > 50 THEN "sredniy"
  ELSE IF confidence > 30 THEN "nizkiy"
  ELSE "minimalnyy"

\* The number of characters of the message left after trimming.
TrimmedLength == Len(strip(Text(message)))

\* A credential is configured.
CredentialConfigured == api_key \notin {"None", ""}

\* requests.post ended in an exception or in a response that is not a 200.
CallFailed ==
  /\ response # None
  /\ response.kind # "response" \/ response.status_code # 200

\* The body is a JSON array whose first element is an object with a
\* generated_text field holding a string.
WellFormed(body) ==
  /\ body.t = "list"
  /\ Len(body.v) > 0
  /\ body.v[1].t = "dict"
  /\ "generated_text" \in DOMAIN body.v[1].v
  /\ body.v[1].v["generated_text"].t = "str"

\* The message was analysed and no fraud pattern, no trigger phrase and no
\* red-flag word is in it.
NoLexicalSignal ==
  /\ locals # None
  /\ locals.detected_patterns = <<>>
  /\ locals.context_indicators = <<>>
  /\ locals.red_flag_count = 0

\* The result for a message in which nothing was found.
NothingFound ==
  /\ result.confidence = 0
  /\ result.is_fraud = FALSE
  /\ result.risk_level = "minimalnyy"
  /\ result.reason = NoIndicatorsReason

\* C1: for a message of at least 3 trimmed characters with a credential
\* configured, when the adapter call ends in an exception, a timeout or a
\* response that is not a 200, analyze_message returns exactly what
\* _contextual_analysis returned (its confidence, is_fraud decided against
\* 0.3, its risk level and reason, ai_used false) and raises nothing.
C1_FallbackOnFailedCall ==
  (pc = "returned" /\ CallFailed) =>
    /\ CredentialConfigured
    /\ TrimmedLength >= 3
    /\ raised = FALSE
    /\ result = context_result
    /\ result.confidence = locals.total_score
    /\ result.is_fraud = (locals.total_score > 30)
    /\ result.risk_level = RiskLevelOf(locals.total_score)
    /\ result.ai_used = FALSE

C1_Witness ==
  /\ pc = "returned"
  /\ response # None
  /\ response.kind = "Timeout"
  /\ result = context_result
  /\ result.is_fraud

\* C2: when analyze_message has both a content-only result with confidence c
\* and an adapter result with confidence a (0.7 or 0.3), the returned
\* confidence is exactly (c + a) / 2, is_fraud is true exactly when that mean
\* exceeds 0.4, the risk level is that of the mean, the reason is the
\* content-only reason, the delimiter and the adapter reason, and ai_used is
\* true; c = 0.2 with a = 0.7 gives 0.45 and is_fraud true.
C2_Blend ==
  (pc = "returned" /\ ai_result # None) =>
    /\ ai_result.confidence \in {70, 30}
    /\ 2 * result.confidence = context_result.confidence + ai_result.confidence
    /\ result.is_fraud = (context_result.confidence + ai_result.confidence > 2 * 40)
    /\ result.risk_level = RiskLevelOf(result.confidence)
    /\ result.reason = [kind |-> " | ", parts |-> <<context_result.reason, ai_result.reason>>]
    /\ result.ai_used = TRUE
    /\ (context_result.confidence = 20 /\ ai_result.confidence = 70) =>
         (result.confidence = 45 /\ result.is_fraud)

C2_Witness ==
  /\ pc = "returned"
  /\ ai_result # None
  /\ context_result.confidence = 20
  /\ context_result.is_fraud = FALSE
  /\ ai_result.confidence = 70
  /\ result.confidence = 45
  /\ result.is_fraud

\* C3: for every non-empty message and every adapter outcome the returned
\* confidence lies in [0.0, 1.0], whatever fires.
C3_ConfidenceInRange ==
  (pc = "returned" /\ Text(message) # <<>>) =>
    /\ raised = FALSE
    /\ result.confidence >= 0
    /\ result.confidence <= 100
    /\ context_result # None =>
         (context_result.confidence >= 0 /\ context_result.confidence <= 100)

\* The card-number and the currency bonus alone exceed 1.0.
C3_Witness ==
  /\ pc = "returned"
  /\ locals # None
  /\ locals.bonus = 120
  /\ result.ai_used = FALSE
  /\ result.confidence = 100

\* C4: for a message that is empty or shorter than 3 characters after
\* trimming, analyze_message returns is_fraud false, confidence 0.0, the
\* minimal risk level, the fixed too-short reason and ai_used false, with or
\* without a credential, and calls neither the scoring passes nor the
\* adapter.
C4_TooShort ==
  (pc # "idle" /\ TrimmedLength < 3) =>
    /\ pc = "returned"
    /\ raised = FALSE
    /\ result = [is_fraud |-> FALSE, confidence |-> 0, risk_level |-> "minimalnyy",
                 reason |-> TooShortReason, ai_used |-> FALSE]
    /\ contextual_calls = 0
    /\ locals = None
    /\ ai_calls = 0
    /\ response = None

\* A message of three characters of which two are left after trimming, with a
\* credential configured.
C4_Witness ==
  /\ pc = "returned"
  /\ CredentialConfigured
  /\ Len(Text(message)) >= 3
  /\ TrimmedLength < 3
  /\ result.reason = TooShortReason

\* C5, as claimed, for the messages that are analysed (a too-short message
\* gets the too-short reason, C4): with the adapter disabled, every message
\* with no fraud pattern, no trigger phrase and no red-flag word yields
\* confidence 0.0, is_fraud false, the minimal risk level and the
\* no-indicators reason, also when structural checks, pressure checks or the
\* numeric bonuses fire.
C5_NoLexicalSignalMeansZero ==
  (pc = "returned" /\ ~CredentialConfigured /\ TrimmedLength >= 3 /\ NoLexicalSignal) =>
    NothingFound

\* C5, amended: with the adapter disabled, for a message of at least 3 trimmed
\* characters with no fraud pattern, no trigger phrase and no red-flag word,
\* the confidence is the sum of the structural score, the pressure score and
\* the numeric bonuses, clamped to 1.0; is_fraud and the risk level follow
\* from it; the reason is the no-indicators one unless the structural or the
\* pressure score exceeds 0.3; so the result is the nothing-found one when
\* none of them fires.
C5_NoSignalAtAllMeansZero ==
  (pc = "returned" /\ ~CredentialConfigured /\ TrimmedLength >= 3 /\ NoLexicalSignal) =>
    LET others == locals.structure_score + locals.pressure_score + locals.bonus IN
    /\ result.confidence = (IF others > 100 THEN 100 ELSE others)
    /\ result.is_fraud = (result.confidence > 30)
    /\ result.risk_level = RiskLevelOf(result.confidence)
    /\ (locals.structure_score <= 30 /\ locals.pressure_score <= 30) =>
         result.reason = NoIndicatorsReason
    /\ others = 0 => NothingFound

C5_Witness ==
  /\ pc = "returned"
  /\ ~CredentialConfigured
  /\ TrimmedLength >= 3
  /\ NoLexicalSignal
  /\ locals.structure_score + locals.pressure_score + locals.bonus = 0
  /\ NothingFound

\* C6, as claimed: the adapter yields a result only for a 200 response whose
\* body is well formed; for every other body (not a list, an empty list, a
\* first element that is no object, or has no generated_text field, or whose
\* generated_text is no string) it yields none and analyze_message returns
\* the content-only result with ai_used false.
C6_MalformedBodyYieldsNoResult ==
  (pc = "returned" /\ response # None) =>
    /\ ai_result # None =>
         /\ response.kind = "response"
         /\ response.status_code = 200
         /\ response.valid_json
         /\ WellFormed(response.body)
    /\ (response.kind = "response" /\ response.status_code = 200
        /\ response.valid_json /\ ~WellFormed(response.body)) =>
         /\ ai_result = None
         /\ result = context_result
         /\ result.ai_used = FALSE

\* C7: in a run of analyze_message the classifier is contacted at most once,
\* and only with a credential configured and a message that is not too
\* short; a failed call is not retried; ai_used is true exactly when that one
\* call yielded a result and the result was blended into the confidence.
C7_SingleAttempt ==
  /\ ai_calls <= 1
  /\ ai_calls = 1 => (CredentialConfigured /\ TrimmedLength >= 3)
  /\ pc = "http" => ai_calls = 1
  /\ pc = "returned" =>
       /\ raised = FALSE
       /\ result.ai_used <=>
            /\ ai_calls = 1
            /\ response.kind = "response"
            /\ response.status_code = 200
            /\ ai_result # None
            /\ 2 * result.confidence = context_result.confidence + ai_result.confidence

\* The one call failed and analyze_message returned without another.
C7_Witness ==
  /\ pc = "returned"
  /\ ai_calls = 1
  /\ response.kind = "ConnectionError"
  /\ result.ai_used = FALSE

\* C8: in every result the risk level is a function of the confidence alone:
\* above 0.7 high, else above 0.5 medium, else above 0.3 low, else minimal; so
\* 0.7 is medium, 0.5 low and 0.3 minimal.
C8_RiskLevelFromConfidence ==
  /\ result # None =>
       /\ result.risk_level = RiskLevelOf(result.confidence)
       /\ result.confidence = 70 => result.risk_level = "sredniy"
       /\ result.confidence = 50 => result.risk_level = "nizkiy"
       /\ result.confidence = 30 => result.risk_level = "minimalnyy"
  /\ context_result # None =>
       context_result.risk_level = RiskLevelOf(context_result.confidence)

C8_Witness ==
  /\ pc = "returned"
  /\ result.confidence = 70
  /\ result.risk_level = "sredniy"
  /\ result.ai_used = FALSE

\* C9: in every result is_fraud implies a risk level other than minimal, and
\* in a content-only result is_fraud holds exactly when the risk level is low,
\* medium or high.
C9_VerdictAgreesWithRisk ==
  (pc = "returned" /\ result # None) =>
    /\ result.is_fraud => result.risk_level # "minimalnyy"
    /\ result.ai_used = FALSE =>
         (result.is_fraud <=> result.risk_level \in {"nizkiy", "sredniy", "vysokiy"})

\* A content-only verdict at the lowest risk level that is one.
C9_Witness ==
  /\ pc = "returned"
  /\ result.ai_used = FALSE
  /\ result.is_fraud
  /\ result.confidence = 40
  /\ result.risk_level = "nizkiy"

\* C10, as claimed: once the health-check thread serves, it keeps serving
\* whatever the bot side does.
C10_HealthThreadOutlivesBot ==
  [][web_thread = "serving" => web_thread' = "serving"]_vars

\* C10, amended: once the health-check thread serves, it keeps serving and
\* answering / and /health as long as the main thread has not left main(),
\* also while a message analysis is blocked in the external HTTP call; when
\* main() returns (no BOT_TOKEN, an exception at start-up or in run_polling)
\* the process exits and the daemon thread with it.
C10_HealthThreadLivesWithMain ==
  /\ [][(web_thread = "serving" /\ main_pc' # "exited") => web_thread' = "serving"]_vars
  /\ [][(web_thread = "serving" /\ health' # health) =>
          health'.answer \in {"Bot is running", "OK"}]_vars
  /\ [](main_pc = "exited" => web_thread \notin {"starting", "serving"})

\* A health check answered while the analysis is blocked in requests.post.
C10_Witness ==
  /\ pc = "http"
  /\ web_thread = "serving"
  /\ health = [answer |-> "OK", during |-> "http"]

=============================================================================
